---- MODULE Spec2Model ----
(***************************************************************************)
(* Model of the Drip contract (beepopula/Drip-contract): the per-source    *)
(* balance ledger (src/src/ntft/core_impl.rs), the collection protocol     *)
(* ft_collect / resolve_collect (src/src/lib.rs, src/src/resolver.rs,      *)
(* src/src/internal.rs) and the redemption protocol ft_burn_call /         *)
(* ft_resolve_burn (src/src/ntft/core_impl.rs).                            *)
(*                                                                         *)
(* An account id is the sequence of its dot-separated labels               *)
(* ("a.popula.near" is <<"a", "popula", "near">>).  A panic discards every *)
(* write of the call (the NEAR runtime reverts a failed receipt), which    *)
(* Commit models.  Balances are 128-bit in the code; the model keeps the   *)
(* checked arithmetic and narrows the width to MaxBalance.                 *)
(***************************************************************************)
EXTENDS Integers, Sequences, FiniteSets, TLC

\* ------------------------------------------------------------- bounds
\* Largest value of a Balance (u128::MAX in the code).
MaxBalance == 3
\* Redemptions in flight at once.
MaxBurns == 2
\* Remote collect_drip calls in flight at once, over all batches.
MaxPending == 2
\* account_storage_usage * storage_byte_cost: the cost of one registration.
StorageCost == 2

\* ---------------------------------------------------------- constants
\* Gas constants, in Tgas (10^12 gas).
THIS_FUNCTION_CALL_GAS == 50
COLLECT_DRIP_GAS == 10
RESOLVE_COLLECT_DRIP_GAS_BASE == 3
RESOLVE_COLLECT_DRIP_GAS_X == 2
GAS_FOR_RESOLVE_TRANSFER == 5
GAS_FOR_FT_TRANSFER_CALL == 25 + GAS_FOR_RESOLVE_TRANSFER

\* ------------------------------------------------------------ identifiers
\* env::current_account_id()
CurrentAccountId == <<"drip", "popula", "near">>
Alice == <<"alice", "near">>
Bob == <<"bob", "near">>
Users == {Alice, Bob}
\* Sources: A shares the contract's two-label root, B and C do not, X has a
\* single label (an implicit or top-level account).
SrcA == <<"a", "popula", "near">>
SrcB == <<"b", "evil", "near">>
SrcC == <<"c", "other", "near">>
SrcX == <<"x">>
Sources == {SrcA, SrcB, SrcC, SrcX}
\* Option<AccountId>: None, or Some(id) written as the id itself.
None == <<>>
Slots == {None} \cup Sources

VARIABLES
    accounts,      \* FungibleToken.accounts: registered account -> (slot -> balance)
    total_supply,  \* FungibleToken.total_supply
    white_list,    \* Contract.white_list
    owner_id,      \* Contract.owner_id
    burns,         \* redemptions awaiting ft_resolve_burn
    batches,       \* collection batches awaiting resolve_collect
    call           \* the last call: what was called, with what, and how it ended

vars == <<accounts, total_supply, white_list, owner_id, burns, batches, call>>

\* ------------------------------------------------------------ helpers
RECURSIVE SumSeq(_)
SumSeq(s) == IF s = <<>> THEN 0 ELSE Head(s) + SumSeq(Tail(s))

RECURSIVE SumFun(_)
SumFun(f) ==
    IF DOMAIN f = {} THEN 0
    ELSE LET k == CHOOSE x \in DOMAIN f : TRUE
         IN f[k] + SumFun([x \in DOMAIN f \ {k} |-> f[x]])

\* Sum over all (account, source) entries of all accounts.
SumBalances(accts) == SumFun([a \in DOMAIN accts |-> SumFun(accts[a])])

\* f with key k set to v (UnorderedMap::insert, LookupMap::insert).
MapInsert(f, k, v) == [x \in DOMAIN f \cup {k} |-> IF x = k THEN v ELSE f[x]]

\* The ledger part of the state, as the value the ledger operations work on.
Ledger == [accounts |-> accounts, total_supply |-> total_supply]

Ok(L) == [res |-> "ok", accounts |-> L.accounts, total_supply |-> L.total_supply]
Panic(L, msg) == [res |-> msg, accounts |-> L.accounts, total_supply |-> L.total_supply]

\* u128::checked_add / checked_sub: -1 stands for None.
checked_add(a, b) == IF a + b > MaxBalance THEN -1 ELSE a + b
checked_sub(a, b) == IF a - b < 0 THEN -1 ELSE a - b

\* ------------------------------------------------- faulty ledger variants
\* Variants of the ledger operations with one plausible fault each; the
\* properties below are sensitive to them.
\* internal_deposit that forgets to add the amount to total_supply.
internal_deposit_stale_total(L, account_id, amount, contract_id) ==
    IF account_id \notin DOMAIN L.accounts THEN Panic(L, "NotRegistered")
    ELSE IF contract_id \notin DOMAIN L.accounts[account_id]
         THEN Panic(L, "ContractNotRegistered")
    ELSE LET account == L.accounts[account_id]
             new_balance == checked_add(account[contract_id], amount)
         IN IF new_balance = -1 THEN Panic(L, "BalanceOverflow")
            ELSE Ok([L EXCEPT !.accounts =
                         MapInsert(L.accounts, account_id,
                                   MapInsert(account, contract_id, new_balance))])

\* internal_deposit with a wrapping addition on total_supply.
internal_deposit_wrapping_total(L, account_id, amount, contract_id) ==
    IF account_id \notin DOMAIN L.accounts THEN Panic(L, "NotRegistered")
    ELSE IF contract_id \notin DOMAIN L.accounts[account_id]
         THEN Panic(L, "ContractNotRegistered")
    ELSE LET account == L.accounts[account_id]
             new_balance == checked_add(account[contract_id], amount)
         IN IF new_balance = -1 THEN Panic(L, "BalanceOverflow")
            ELSE Ok([accounts |-> MapInsert(L.accounts, account_id,
                                            MapInsert(account, contract_id, new_balance)),
                     total_supply |-> (L.total_supply + amount) % (MaxBalance + 1)])

\* internal_withdraw with wrapping subtractions.
internal_withdraw_wrapping(L, account_id, amount, contract_id) ==
    IF account_id \notin DOMAIN L.accounts THEN Panic(L, "NotRegistered")
    ELSE IF contract_id \notin DOMAIN L.accounts[account_id]
         THEN Panic(L, "ContractNotRegistered")
    ELSE LET account == L.accounts[account_id]
             new_balance == (account[contract_id] - amount) % (MaxBalance + 1)
         IN Ok([accounts |-> MapInsert(L.accounts, account_id,
                                       MapInsert(account, contract_id, new_balance)),
                total_supply |-> (L.total_supply - amount) % (MaxBalance + 1)])

\* internal_register_account that does not look at the previous value.
internal_register_account_overwrite(L, account_id) ==
    Ok([L EXCEPT !.accounts = MapInsert(L.accounts, account_id, <<>>)])

\* A faulty read: an account's balance over all its slots, for any source.
ft_balance_by_contract_any_slot(accts, account_id, contract_id) ==
    IF account_id \in DOMAIN accts THEN SumFun(accts[account_id]) ELSE 0

\* ------------------------------------------------------------- ledger
\* FungibleToken::ft_balance_by_contract
ft_balance_by_contract(accts, account_id, contract_id) ==
    IF account_id \in DOMAIN accts
    THEN IF contract_id \in DOMAIN accts[account_id]
         THEN accts[account_id][contract_id]
         ELSE 0
    ELSE 0

\* FungibleToken::ft_balance_of
ft_balance_of(accts, account_id) == ft_balance_by_contract(accts, account_id, None)

\* FungibleToken::internal_deposit.  The slot and the accounts map are written
\* before total_supply is checked: on "Total supply overflow" the value
\* returned still holds those writes, and it is Commit that discards them.
internal_deposit(L, account_id, amount, contract_id) ==
    IF account_id \notin DOMAIN L.accounts THEN Panic(L, "NotRegistered")
    ELSE IF contract_id \notin DOMAIN L.accounts[account_id]
         THEN Panic(L, "ContractNotRegistered")
    ELSE LET account == L.accounts[account_id]
             new_balance == checked_add(account[contract_id], amount)
             written == [L EXCEPT !.accounts =
                             MapInsert(L.accounts, account_id,
                                       MapInsert(account, contract_id, new_balance))]
             new_total == checked_add(L.total_supply, amount)
         IN IF new_balance = -1 THEN Panic(L, "BalanceOverflow")
            ELSE IF new_total = -1 THEN Panic(written, "SupplyOverflow")
            ELSE Ok([written EXCEPT !.total_supply = new_total])

\* FungibleToken::internal_withdraw
internal_withdraw(L, account_id, amount, contract_id) ==
    IF account_id \notin DOMAIN L.accounts THEN Panic(L, "NotRegistered")
    ELSE IF contract_id \notin DOMAIN L.accounts[account_id]
         THEN Panic(L, "ContractNotRegistered")
    ELSE LET account == L.accounts[account_id]
             new_balance == checked_sub(account[contract_id], amount)
             written == [L EXCEPT !.accounts =
                             MapInsert(L.accounts, account_id,
                                       MapInsert(account, contract_id, new_balance))]
             new_total == checked_sub(L.total_supply, amount)
         IN IF new_balance = -1 THEN Panic(L, "InsufficientBalance")
            ELSE IF new_total = -1 THEN Panic(written, "SupplyOverflow")
            ELSE Ok([written EXCEPT !.total_supply = new_total])

\* FungibleToken::internal_register_account: the insert replaces the map and
\* only then is the previous value looked at.
internal_register_account(L, account_id) ==
    LET written == [L EXCEPT !.accounts = MapInsert(L.accounts, account_id, <<>>)]
    IN IF account_id \in DOMAIN L.accounts
       THEN Panic(written, "AlreadyRegistered")
       ELSE Ok(written)

\* Registration of one source slot of a registered account, at balance 0.
register_contract(L, account_id, contract_id) ==
    IF account_id \notin DOMAIN L.accounts THEN Panic(L, "NotRegistered")
    ELSE IF contract_id \in DOMAIN L.accounts[account_id]
         THEN Panic(L, "AlreadyRegistered")
    ELSE Ok([L EXCEPT !.accounts =
                 MapInsert(L.accounts, account_id,
                           MapInsert(L.accounts[account_id], contract_id, 0))])

\* env::panic_str, expect, assert!: a call that panics keeps none of its writes.
Commit(L0, r) ==
    IF r.res = "ok" THEN r
    ELSE [res |-> r.res, accounts |-> L0.accounts, total_supply |-> L0.total_supply]

\* ------------------------------------------------------- authorization
\* get_root_id: the last two labels.  With fewer than two labels
\* arr.len() - 2 underflows (or arr.get fails) and the call panics.
root_panics(contract_id) == Len(contract_id) < 2
get_root_id(contract_id) ==
    <<contract_id[Len(contract_id) - 1], contract_id[Len(contract_id)]>>

\* The test of ft_collect's filter and of internal_set_drip.  get_root_id is
\* evaluated first, so it is only called here on ids of two labels or more.
is_trusted(wl, contract_id) ==
    \/ get_root_id(contract_id) = get_root_id(CurrentAccountId)
    \/ contract_id \in wl

\* Contract::check_contract_id: the root of the id is compared with the
\* contract's owner_id.
check_contract_id(owner, wl, contract_id) ==
    \/ get_root_id(contract_id) = owner
    \/ contract_id \in wl

\* ------------------------------------------------------ remote replies
\* What a remote call ends with: failure, or success with a body that is a
\* JSON U128 ("num"), some other JSON or text ("garbage"), or nothing ("empty").
Failed == [kind |-> "failed", val |-> 0]
Num(n) == [kind |-> "num", val |-> n]
Garbage == [kind |-> "garbage", val |-> 0]
EmptyBody == [kind |-> "empty", val |-> 0]
Pending == [kind |-> "pending", val |-> 0]
\* Success with a body that is a JSON object from metric names to amounts.
MapReply(m) == [kind |-> "map", val |-> m]
Replies == {Failed, Garbage, EmptyBody} \cup {Num(n) : n \in 0..MaxBalance}

\* serde_json::from_slice::<U128>(&result).unwrap_or(0.into()) in resolve_collect
collect_amount(reply) == IF reply.kind = "num" THEN reply.val ELSE 0

\* The weighting table that get_coe_map reads out: a coefficient per metric.
coe_map == [x |-> 1, y |-> 2]

\* The refund_amount of internal_ft_resolve_burn
refund_amount(amount, reply) ==
    IF reply.kind = "failed" THEN amount
    ELSE IF reply.kind = "num"
         THEN (IF amount < reply.val THEN amount ELSE reply.val)
         ELSE amount

\* --------------------------------------------------------------- records
NoBurn == [owner |-> None, contract |-> None, amount |-> 0, before |-> 0]
NoCall ==
    [op |-> "init", account |-> None, source |-> None, amount |-> 0,
     collects |-> <<>>, gas |-> 0, deposit |-> 0, credit |-> 0,
     wrapped |-> FALSE, del |-> FALSE, res |-> "ok", reply |-> Pending,
     k |-> 0, ret |-> 0]

RemoveAt(s, i) == [j \in 1..(Len(s) - 1) |-> IF j < i THEN s[j] ELSE s[j + 1]]

\* ------------------------------------------------------------ collection
\* The filter of ft_collect: the trusted candidates, in the request's order.
RECURSIVE filter_collects(_, _)
filter_collects(wl, collects) ==
    IF collects = <<>> THEN <<>>
    ELSE IF is_trusted(wl, Head(collects))
         THEN <<Head(collects)>> \o filter_collects(wl, Tail(collects))
         ELSE filter_collects(wl, Tail(collects))

\* unregister_count: the filtered candidates the caller has no slot for.
unregister_count(account, filtered) ==
    Cardinality({i \in DOMAIN filtered : filtered[i] \notin DOMAIN account})

\* The gas left for the fan-out, prepaid_gas - THIS_FUNCTION_CALL_GAS on u64:
\* below THIS_FUNCTION_CALL_GAS the subtraction panics in a build with
\* overflow checks and wraps in a build without.
U64_WRAP_TGAS == 18446744
gas_for_fanout(gas, wrap) ==
    IF gas >= THIS_FUNCTION_CALL_GAS THEN gas - THIS_FUNCTION_CALL_GAS
    ELSE IF wrap THEN gas - THIS_FUNCTION_CALL_GAS + U64_WRAP_TGAS
    ELSE -1

\* The budget a fan-out to n sources needs.
required_gas(n) ==
    n * (COLLECT_DRIP_GAS + RESOLVE_COLLECT_DRIP_GAS_X) + RESOLVE_COLLECT_DRIP_GAS_BASE

\* A faulty ft_collect: the closing assert on the number of promises is
\* left out, and a fan-out to nobody ends well.
ft_collect_silent(L, wl, sender_id, collects, deposit, gas, avail, wrap) ==
    LET registered == sender_id \in DOMAIN L.accounts
        reg == IF registered THEN Ok(L)
               ELSE IF ~(StorageCost < deposit) THEN Panic(L, "InsufficientDeposit")
               ELSE internal_register_account(L, sender_id)
        storage_balance == IF registered THEN avail ELSE 0
        out(r, list) == [res |-> r.res, accounts |-> r.accounts,
                         total_supply |-> r.total_supply, collects |-> list]
    IN IF reg.res # "ok" THEN out(reg, <<>>)
       ELSE IF \E i \in DOMAIN collects : root_panics(collects[i])
            THEN out(Panic(reg, "BadSourceId"), <<>>)
       ELSE LET filtered == filter_collects(wl, collects)
                n == Len(filtered)
                left == gas_for_fanout(gas, wrap)
            IN IF ~(StorageCost * unregister_count(reg.accounts[sender_id], filtered)
                        <= deposit + storage_balance)
               THEN out(Panic(reg, "InsufficientDeposit"), <<>>)
               ELSE IF left = -1 THEN out(Panic(reg, "GasUnderflow"), <<>>)
               ELSE IF ~(required_gas(n) < left)
                    THEN out(Panic(reg, "InsufficientBudget"), <<>>)
               ELSE out(reg, filtered)

\* A faulty ft_collect: the unit attached to each remote call is booked
\* into total_supply.
ft_collect_booking(L, wl, sender_id, collects, deposit, gas, avail, wrap) ==
    LET registered == sender_id \in DOMAIN L.accounts
        reg == IF registered THEN Ok(L)
               ELSE IF ~(StorageCost < deposit) THEN Panic(L, "InsufficientDeposit")
               ELSE internal_register_account(L, sender_id)
        storage_balance == IF registered THEN avail ELSE 0
        out(r, list) == [res |-> r.res, accounts |-> r.accounts,
                         total_supply |-> r.total_supply, collects |-> list]
    IN IF reg.res # "ok" THEN out(reg, <<>>)
       ELSE IF \E i \in DOMAIN collects : root_panics(collects[i])
            THEN out(Panic(reg, "BadSourceId"), <<>>)
       ELSE LET filtered == filter_collects(wl, collects)
                n == Len(filtered)
                left == gas_for_fanout(gas, wrap)
            IN IF ~(StorageCost * unregister_count(reg.accounts[sender_id], filtered)
                        <= deposit + storage_balance)
               THEN out(Panic(reg, "InsufficientDeposit"), <<>>)
               ELSE IF left = -1 THEN out(Panic(reg, "GasUnderflow"), <<>>)
               ELSE IF ~(required_gas(n) < left)
                    THEN out(Panic(reg, "InsufficientBudget"), <<>>)
               \* the promises and the continuation are created, and then:
               ELSE IF ~(n > 0) THEN out(Panic(reg, "NothingToCollect"), filtered)
               ELSE out([reg EXCEPT !.total_supply = @ + n], filtered)

\* Contract::ft_collect, up to the end of the call: the ledger it leaves and
\* the list it hands to resolve_collect.  avail is the caller's
\* storage_balance_of(..).available.
ft_collect(L, wl, sender_id, collects, deposit, gas, avail, wrap) ==
    LET registered == sender_id \in DOMAIN L.accounts
        reg == IF registered THEN Ok(L)
               ELSE IF ~(StorageCost < deposit) THEN Panic(L, "InsufficientDeposit")
               ELSE internal_register_account(L, sender_id)
        storage_balance == IF registered THEN avail ELSE 0
        out(r, list) == [res |-> r.res, accounts |-> r.accounts,
                         total_supply |-> r.total_supply, collects |-> list]
    IN IF reg.res # "ok" THEN out(reg, <<>>)
       ELSE IF \E i \in DOMAIN collects : root_panics(collects[i])
            THEN out(Panic(reg, "BadSourceId"), <<>>)
       ELSE LET filtered == filter_collects(wl, collects)
                n == Len(filtered)
                left == gas_for_fanout(gas, wrap)
            IN IF ~(StorageCost * unregister_count(reg.accounts[sender_id], filtered)
                        <= deposit + storage_balance)
               THEN out(Panic(reg, "InsufficientDeposit"), <<>>)
               ELSE IF left = -1 THEN out(Panic(reg, "GasUnderflow"), <<>>)
               ELSE IF ~(required_gas(n) < left)
                    THEN out(Panic(reg, "InsufficientBudget"), <<>>)
               \* the promises and the continuation are created, and then:
               ELSE IF ~(n > 0) THEN out(Panic(reg, "NothingToCollect"), filtered)
               ELSE out(reg, filtered)

\* The source the i-th promise result belongs to: collects.get(i).
collect_target(collects, i) == collects[i]

\* Contract::internal_set_drip
internal_set_drip(L, wl, balance, contract_id, account_id) ==
    IF root_panics(contract_id) THEN Panic(L, "BadSourceId")
    ELSE IF is_trusted(wl, contract_id)
         THEN internal_deposit(L, account_id, balance, contract_id)
         ELSE Ok(L)

\* A faulty resolve_collect: a deposit that fails ends the loop without
\* failing the call, and the credits made before it stay.
RECURSIVE resolve_collect_partial(_, _, _, _)
resolve_collect_partial(L, wl, batch, i) ==
    IF i > Len(batch.results) THEN Ok(L)
    ELSE IF batch.results[i].kind = "failed"
         THEN resolve_collect_partial(L, wl, batch, i + 1)
    ELSE IF i > Len(batch.collects) THEN resolve_collect_partial(L, wl, batch, i + 1)
    ELSE LET r == internal_set_drip(L, wl, collect_amount(batch.results[i]),
                                    collect_target(batch.collects, i), batch.account)
         IN IF r.res # "ok" THEN Ok(L)
            ELSE resolve_collect_partial(r, wl, batch, i + 1)

\* Contract::resolve_collect: the loop over the promise results, from
\* position i on.  A panic of a deposit ends the call.
RECURSIVE resolve_collect(_, _, _, _)
resolve_collect(L, wl, batch, i) ==
    IF i > Len(batch.results) THEN Ok(L)
    ELSE IF batch.results[i].kind = "failed" THEN resolve_collect(L, wl, batch, i + 1)
    ELSE IF i > Len(batch.collects) THEN resolve_collect(L, wl, batch, i + 1)
    ELSE LET r == internal_set_drip(L, wl, collect_amount(batch.results[i]),
                                    collect_target(batch.collects, i), batch.account)
         IN IF r.res # "ok" THEN r
            ELSE resolve_collect(r, wl, batch, i + 1)

\* ------------------------------------------------------------ redemption
\* A faulty variant: ft_burn_call that checks the balance and leaves the
\* debit to the reconciliation.
ft_burn_call_late_debit(L, sender_id, contract_id, amount, deposit, gas) ==
    IF deposit # 1 THEN Panic(L, "RequiresOneYocto")
    ELSE IF ~(gas > GAS_FOR_FT_TRANSFER_CALL) THEN Panic(L, "MoreGasRequired")
    ELSE LET r == internal_withdraw(L, sender_id, amount, contract_id)
         IN IF r.res = "ok" THEN Ok(L) ELSE r

\* A faulty ft_burn_call: the remote call is issued whether or not the
\* withdrawal went through.
ft_burn_call_regardless(L, sender_id, contract_id, amount, deposit, gas) ==
    IF deposit # 1 THEN Panic(L, "RequiresOneYocto")
    ELSE IF ~(gas > GAS_FOR_FT_TRANSFER_CALL) THEN Panic(L, "MoreGasRequired")
    ELSE LET r == internal_withdraw(L, sender_id, amount, contract_id)
         IN IF r.res = "ok" THEN r ELSE Ok(L)

\* A faulty ft_burn_call: the gas test is not strict, and the attached
\* deposit may be anything from one unit up.
ft_burn_call_lax(L, sender_id, contract_id, amount, deposit, gas) ==
    IF deposit < 1 THEN Panic(L, "RequiresOneYocto")
    ELSE IF ~(gas >= GAS_FOR_FT_TRANSFER_CALL) THEN Panic(L, "MoreGasRequired")
    ELSE internal_withdraw(L, sender_id, amount, contract_id)

\* FungibleToken::ft_burn_call, up to the creation of the promises.
ft_burn_call(L, sender_id, contract_id, amount, deposit, gas) ==
    IF deposit # 1 THEN Panic(L, "RequiresOneYocto")
    ELSE IF ~(gas > GAS_FOR_FT_TRANSFER_CALL) THEN Panic(L, "MoreGasRequired")
    ELSE internal_withdraw(L, sender_id, amount, contract_id)

\* FungibleToken::internal_ft_resolve_burn; ret is the used amount,
\* what ft_resolve_burn returns.
internal_ft_resolve_burn(L, owner_id_, amount, contract_id, reply) ==
    LET refund == refund_amount(amount, reply)
        with(r, ret) == [res |-> r.res, accounts |-> r.accounts,
                         total_supply |-> r.total_supply, ret |-> ret]
    IN IF refund > 0
       THEN with(internal_deposit(L, owner_id_, refund, contract_id), amount - refund)
       ELSE with(Ok(L), amount)

\* ------------------------------------------------------------------ inputs
Amounts == 0..MaxBalance
\* The slots the ledger calls are tried on.
LedgerSlots == {None, SrcA}
\* The sources redemptions are tried against.
BurnSources == {SrcA}
\* The amounts redemptions are tried with.
BurnAmounts == {1, 2}
\* Who calls the contract, and the slots registered for them.
Callers == {Alice}
CallerSlots == {SrcA, SrcC}
\* What the remote ft_on_burn call is taken to end with.
BurnReplies == {Failed, Garbage, Num(0), Num(1), Num(3)}
\* What a remote collect_drip call is taken to end with.
CollectReplies == {Failed, Garbage, Num(1), Num(2)}
\* The ids set_white_list is tried with.
WhiteListable == {SrcC}
\* Who calls set_white_list.
Admins == {<<"popula", "near">>, Alice}
\* The candidate lists ft_collect is tried with.
CandidateLists ==
    {<<>>, <<SrcA>>, <<SrcB>>, <<SrcA, SrcB, SrcC>>, <<SrcC, SrcA>>}
\* Attached deposits (yoctoNEAR) and prepaid gas (Tgas) of the usual call.
Deposits == {0, 1, 2 * StorageCost + 1}
GasValues == {GAS_FOR_FT_TRANSFER_CALL, 100}
\* Those ft_collect's checks are tried with.
CollectDeposits == {0, StorageCost - 1, StorageCost, StorageCost + 1, 2 * StorageCost,
                    3 * StorageCost}
CollectGas ==
    {THIS_FUNCTION_CALL_GAS - 10,
     THIS_FUNCTION_CALL_GAS + required_gas(0),
     THIS_FUNCTION_CALL_GAS + required_gas(1), THIS_FUNCTION_CALL_GAS + required_gas(1) + 1,
     THIS_FUNCTION_CALL_GAS + required_gas(2), THIS_FUNCTION_CALL_GAS + required_gas(2) + 1,
     300}
AvailValues == {0, StorageCost}
\* The candidate lists ft_collect's checks are tried with.
CheckedLists == {<<>>, <<SrcA>>, <<SrcB>>, <<SrcA, SrcC>>, <<SrcX, SrcA>>}
\* The replies of the sources in those calls: a scalar, and a metric mapping.
SweepReplies == {Num(1), MapReply([x |-> 1, y |-> 1])}

\* ---------------------------------------------------------------- state
Init ==
    /\ accounts = <<>>
    /\ total_supply = 0
    /\ white_list = {}
    /\ owner_id = <<"popula", "near">>
    /\ burns = <<>>
    /\ batches = <<>>
    /\ call = NoCall

SetLedger(r) ==
    /\ accounts' = r.accounts
    /\ total_supply' = r.total_supply

\* ------------------------------------------------------- ledger calls
Register(a) ==
    LET r == Commit(Ledger, internal_register_account(Ledger, a))
    IN /\ SetLedger(r)
       /\ call' = [NoCall EXCEPT !.op = "register", !.account = a, !.res = r.res]
       /\ UNCHANGED <<white_list, owner_id, burns, batches>>

RegisterContract(a, c) ==
    LET r == Commit(Ledger, register_contract(Ledger, a, c))
    IN /\ SetLedger(r)
       /\ call' = [NoCall EXCEPT !.op = "register_contract", !.account = a,
                                 !.source = c, !.res = r.res]
       /\ UNCHANGED <<white_list, owner_id, burns, batches>>

Deposit(a, c, n) ==
    LET r == Commit(Ledger, internal_deposit(Ledger, a, n, c))
    IN /\ SetLedger(r)
       /\ call' = [NoCall EXCEPT !.op = "deposit", !.account = a, !.source = c,
                                 !.amount = n, !.res = r.res]
       /\ UNCHANGED <<white_list, owner_id, burns, batches>>

Withdraw(a, c, n) ==
    LET r == Commit(Ledger, internal_withdraw(Ledger, a, n, c))
    IN /\ SetLedger(r)
       /\ call' = [NoCall EXCEPT !.op = "withdraw", !.account = a, !.source = c,
                                 !.amount = n, !.res = r.res]
       /\ UNCHANGED <<white_list, owner_id, burns, batches>>

\* FungibleToken::ft_balance_by_contract, a view call: ret is what it returns.
FtBalanceByContract(a, c) ==
    /\ call' = [NoCall EXCEPT !.op = "ft_balance_by_contract", !.account = a,
                              !.source = c,
                              !.ret = ft_balance_by_contract(accounts, a, c)]
    /\ UNCHANGED <<accounts, total_supply, white_list, owner_id, burns, batches>>

\* FungibleToken::ft_balance_of, a view call
FtBalanceOf(a) ==
    /\ call' = [NoCall EXCEPT !.op = "ft_balance_of", !.account = a,
                              !.ret = ft_balance_of(accounts, a)]
    /\ UNCHANGED <<accounts, total_supply, white_list, owner_id, burns, batches>>

\* Contract::check_contract_id on one source; res is its outcome.
CheckContractId(contract_id) ==
    /\ call' = [NoCall EXCEPT !.op = "check_contract_id", !.source = contract_id,
                              !.res = IF root_panics(contract_id) THEN "BadSourceId"
                                      ELSE IF check_contract_id(owner_id, white_list,
                                                                contract_id)
                                           THEN "trusted"
                                           ELSE "untrusted"]
    /\ UNCHANGED <<accounts, total_supply, white_list, owner_id, burns, batches>>

\* A faulty set_white_list: the caller is not tested.
SetWhiteListUngated(caller, contract_id, del) ==
    /\ white_list' = IF del THEN white_list \ {contract_id}
                     ELSE white_list \cup {contract_id}
    /\ call' = [NoCall EXCEPT !.op = "set_white_list", !.account = caller,
                              !.source = contract_id, !.del = del]
    /\ UNCHANGED <<accounts, total_supply, owner_id, burns, batches>>

\* ----------------------------------------------------- contract calls
\* Contract::set_white_list
SetWhiteList(caller, contract_id, del) ==
    /\ white_list' = IF caller # owner_id THEN white_list
                     ELSE IF del THEN white_list \ {contract_id}
                     ELSE white_list \cup {contract_id}
    /\ call' = [NoCall EXCEPT !.op = "set_white_list", !.account = caller,
                              !.source = contract_id, !.del = del,
                              !.res = IF caller # owner_id THEN "Unauthorized" ELSE "ok"]
    /\ UNCHANGED <<accounts, total_supply, owner_id, burns, batches>>

\* The remote collect_drip calls in flight.
PendingCalls(bs) == SumSeq([b \in DOMAIN bs |-> Len(bs[b].collects)])

\* Contract::ft_collect.  A call that ends well leaves one batch: one remote
\* collect_drip call per filtered source, in the list's order, joined, with
\* resolve_collect(collects, sender_id) scheduled on the join.
FtCollect(sender_id, collects, deposit, gas, avail, wrap) ==
    /\ LET out == ft_collect(Ledger, white_list, sender_id, collects, deposit, gas,
                             avail, wrap)
           r == Commit(Ledger, out)
       IN /\ PendingCalls(batches) + Len(out.collects) <= MaxPending
          /\ SetLedger(r)
          /\ batches' =
                 IF r.res = "ok"
                 THEN Append(batches,
                             [account |-> sender_id, collects |-> out.collects,
                              results |-> [i \in 1..Len(out.collects) |-> Pending]])
                 ELSE batches
          /\ call' = [NoCall EXCEPT !.op = "ft_collect", !.account = sender_id,
                                    !.collects = collects, !.deposit = deposit,
                                    !.gas = gas,
                                    !.credit = IF sender_id \in DOMAIN accounts
                                               THEN avail ELSE 0,
                                    !.wrapped = wrap /\ gas < THIS_FUNCTION_CALL_GAS,
                                    !.res = r.res]
    /\ UNCHANGED <<white_list, owner_id, burns>>

\* The i-th remote collect_drip call of batch b ends.
RemoteCollectDone(b, i, reply) ==
    /\ b \in DOMAIN batches
    /\ i \in DOMAIN batches[b].results
    /\ batches[b].results[i] = Pending
    /\ batches' = [batches EXCEPT ![b].results[i] = reply]
    /\ call' = [NoCall EXCEPT !.op = "collect_drip", !.k = b]
    /\ UNCHANGED <<accounts, total_supply, white_list, owner_id, burns>>

\* Contract::resolve_collect, run once every call of batch b has ended.
ResolveCollect(b) ==
    /\ b \in DOMAIN batches
    /\ \A i \in DOMAIN batches[b].results : batches[b].results[i] # Pending
    /\ LET r == Commit(Ledger, resolve_collect(Ledger, white_list, batches[b], 1))
       IN /\ SetLedger(r)
          /\ call' = [NoCall EXCEPT !.op = "resolve_collect",
                                    !.account = batches[b].account,
                                    !.k = b, !.res = r.res]
    /\ batches' = RemoveAt(batches, b)
    /\ UNCHANGED <<white_list, owner_id, burns>>

\* FungibleToken::ft_burn_call.  A call that ends well leaves the remote
\* ft_on_burn call and ft_resolve_burn(sender_id, amount, contract_id) on it.
FtBurnCall(sender_id, contract_id, amount, deposit, gas) ==
    /\ LET r == Commit(Ledger, ft_burn_call(Ledger, sender_id, contract_id, amount,
                                            deposit, gas))
       IN /\ r.res = "ok" => Len(burns) < MaxBurns
          /\ SetLedger(r)
          /\ burns' =
                 IF r.res = "ok"
                 THEN Append(burns,
                             [owner |-> sender_id, contract |-> contract_id,
                              amount |-> amount,
                              before |-> ft_balance_by_contract(accounts, sender_id,
                                                                contract_id)])
                 ELSE burns
          /\ call' = [NoCall EXCEPT !.op = "ft_burn_call", !.account = sender_id,
                                    !.source = contract_id, !.amount = amount,
                                    !.deposit = deposit, !.gas = gas, !.res = r.res]
    /\ UNCHANGED <<white_list, owner_id, batches>>

\* FungibleToken::ft_resolve_burn, run when the remote call of redemption k
\* has ended with reply.
FtResolveBurn(k, reply) ==
    /\ k \in DOMAIN burns
    /\ LET b == burns[k]
           out == internal_ft_resolve_burn(Ledger, b.owner, b.amount, b.contract, reply)
           r == Commit(Ledger, out)
       IN /\ SetLedger(r)
          /\ call' = [NoCall EXCEPT !.op = "ft_resolve_burn", !.account = b.owner,
                                    !.source = b.contract, !.amount = b.amount,
                                    !.reply = reply, !.k = k, !.res = r.res,
                                    !.ret = IF r.res = "ok" THEN out.ret ELSE 0]
    /\ burns' = RemoveAt(burns, k)
    /\ UNCHANGED <<white_list, owner_id, batches>>

\* ------------------------------------------------------- specifications
\* The ledger under any sequence of its own calls.
LedgerNext ==
    \/ \E a \in Users : Register(a)
    \/ \E a \in Users, c \in LedgerSlots : RegisterContract(a, c)
    \/ \E a \in Users, c \in LedgerSlots, n \in Amounts : Deposit(a, c, n)
    \/ \E a \in Users, c \in LedgerSlots, n \in Amounts : Withdraw(a, c, n)

LedgerSpec == Init /\ [][LedgerNext]_vars

\* The ledger under its calls and its reads.
ReadNext ==
    \/ \E a \in Users : Register(a)
    \/ \E a \in Users, c \in LedgerSlots : RegisterContract(a, c)
    \/ \E a \in Users, c \in LedgerSlots, n \in Amounts : Deposit(a, c, n)
    \/ \E a \in Users, c \in LedgerSlots : FtBalanceByContract(a, c)
    \/ \E a \in Users : FtBalanceOf(a)

ReadSpec == Init /\ [][ReadNext]_vars

\* The collection protocol: the calls of one caller and of the owner, the
\* outcomes of the remote calls in any order, and the continuation.
Next ==
    \/ \E a \in Callers, c \in CallerSlots : RegisterContract(a, c)
    \/ \E c \in WhiteListable, del \in BOOLEAN : SetWhiteList(owner_id, c, del)
    \/ \E a \in Callers, l \in CandidateLists :
           FtCollect(a, l, 2 * StorageCost + 1, 100, 0, FALSE)
    \/ \E b \in 1..MaxPending, i \in 1..MaxPending, reply \in CollectReplies :
           RemoteCollectDone(b, i, reply)
    \/ \E b \in 1..MaxPending : ResolveCollect(b)

Spec == Init /\ [][Next]_vars

\* The redemption protocol, with collections, one at a time, as the credits
\* that arrive while redemptions are in flight.
BurnNext ==
    \/ \E a \in Callers, c \in CallerSlots : RegisterContract(a, c)
    \/ SetWhiteList(owner_id, SrcC, FALSE)
    \/ \E a \in Callers, l \in {<<SrcA>>, <<SrcC>>} :
           batches = <<>> /\ FtCollect(a, l, 2 * StorageCost + 1, 100, 0, FALSE)
    \/ RemoteCollectDone(1, 1, Num(2))
    \/ ResolveCollect(1)
    \/ \E a \in Callers, c \in BurnSources, n \in BurnAmounts :
           FtBurnCall(a, c, n, 1, 100)
    \/ \E k \in 1..MaxBurns, reply \in BurnReplies : FtResolveBurn(k, reply)

BurnSpec == Init /\ [][BurnNext]_vars

\* ft_collect under its inputs: the prepaid gas in either build, and the
\* attached deposit and storage credit.
CollectNext ==
    \/ \E caller \in Admins : SetWhiteList(caller, SrcC, FALSE)
    \/ \E a \in Callers : RegisterContract(a, SrcA)
    \/ \E a \in Callers, l \in CheckedLists, g \in CollectGas, w \in BOOLEAN :
           batches = <<>> /\ FtCollect(a, l, 2 * StorageCost + 1, g, 0, w)
    \/ \E a \in Callers, l \in CheckedLists, d \in CollectDeposits, v \in AvailValues :
           batches = <<>> /\ FtCollect(a, l, d, 100, v, FALSE)
    \/ \E i \in 1..MaxPending, reply \in SweepReplies : RemoteCollectDone(1, i, reply)
    \/ ResolveCollect(1)

CollectSpec == Init /\ [][CollectNext]_vars

\* The contract as Contract::new leaves it, for any owner_id given to it.
AuthInit ==
    /\ accounts = <<>>
    /\ total_supply = 0
    /\ white_list = {}
    /\ owner_id \in Admins
    /\ burns = <<>>
    /\ batches = <<>>
    /\ call = NoCall

\* The authorization test at its three sites: the filter of ft_collect,
\* internal_set_drip under resolve_collect, and check_contract_id.
AuthNext ==
    \/ \E caller \in Admins, del \in BOOLEAN : SetWhiteList(caller, SrcC, del)
    \/ \E a \in Callers, c \in CallerSlots : RegisterContract(a, c)
    \/ \E a \in Callers :
           batches = <<>> /\ FtCollect(a, <<SrcA, SrcB, SrcC>>, 2 * StorageCost + 1, 100, 0, FALSE)
    \/ \E i \in 1..MaxPending : RemoteCollectDone(1, i, Num(1))
    \/ ResolveCollect(1)
    \/ \E c \in Sources : CheckContractId(c)

AuthSpec == AuthInit /\ [][AuthNext]_vars

\* One redemption at a time under its inputs: the attached deposit and the
\* prepaid gas of ft_burn_call, and every kind of reply to ft_resolve_burn;
\* the balance can be read at any time, also while the remote call runs.
RedeemNext ==
    \/ \E a \in Callers : RegisterContract(a, SrcA)
    \/ \E a \in Callers : batches = <<>> /\ FtCollect(a, <<SrcA>>, 2 * StorageCost + 1, 100, 0, FALSE)
    \/ \E reply \in {Num(1), Num(2)} : RemoteCollectDone(1, 1, reply)
    \/ ResolveCollect(1)
    \/ \E a \in Callers, n \in BurnAmounts, d \in Deposits, g \in GasValues :
           burns = <<>> /\ FtBurnCall(a, SrcA, n, d, g)
    \/ \E reply \in Replies : FtResolveBurn(1, reply)
    \/ \E a \in Callers : FtBalanceByContract(a, SrcA)

RedeemSpec == Init /\ [][RedeemNext]_vars

\* The same under fair delivery: once a redemption is in flight its remote
\* call ends, and the runtime runs the ft_resolve_burn callback on its outcome.
FairRedeemSpec == RedeemSpec /\ WF_vars(\E reply \in Replies : FtResolveBurn(1, reply))

\* ------------------------------------------------------------ properties
\* The balance of an entry a call was made on, and whether the entry exists.
HasEntry(accts, account_id, contract_id) ==
    account_id \in DOMAIN accts /\ contract_id \in DOMAIN accts[account_id]

LedgerUnchanged == accounts' = accounts /\ total_supply' = total_supply

\* C1 - Conservation: in every state reached by register, deposit and
\* withdraw calls, successful or failed, total_supply is the sum of the
\* balances of all (account, source) entries of all accounts.
C1_Conservation == total_supply = SumBalances(accounts)

\* A deposit has just failed on the total-supply check, after the slot was
\* written, with positive balances on both accounts.
C1_Witness ==
    /\ call.op = "deposit" /\ call.res = "SupplyOverflow"
    /\ \A a \in Users : a \in DOMAIN accounts /\ SumFun(accounts[a]) > 0

C9_OverflowRejected ==
    [][(/\ call'.op = "deposit"
        /\ HasEntry(accounts, call'.account, call'.source))
       => LET balance == accounts[call'.account][call'.source]
          IN /\ balance + call'.amount > MaxBalance
                    => call'.res = "BalanceOverflow" /\ LedgerUnchanged
             /\ (/\ balance + call'.amount <= MaxBalance
                 /\ total_supply + call'.amount > MaxBalance)
                    => call'.res = "SupplyOverflow" /\ LedgerUnchanged]_vars

\* A deposit that fits its slot has just been refused for the total supply.
C9_Witness ==
    /\ call.op = "deposit" /\ call.res = "SupplyOverflow"
    /\ accounts[call.account][call.source] + call.amount <= MaxBalance
    /\ total_supply + call.amount > MaxBalance

\* C10 - Registration gating: a deposit or withdraw on an account that was
\* never registered fails with NotRegistered, a register of a registered
\* account fails with AlreadyRegistered, and in each case the ledger is as
\* before.
C10_RegistrationGating ==
    [][/\ (/\ call'.op \in {"deposit", "withdraw"}
           /\ call'.account \notin DOMAIN accounts)
          => call'.res = "NotRegistered" /\ LedgerUnchanged
       /\ (/\ call'.op = "register"
           /\ call'.account \in DOMAIN accounts)
          => call'.res = "AlreadyRegistered" /\ LedgerUnchanged]_vars

\* A register of an account that holds a positive balance has just been
\* refused.
C10_Witness ==
    /\ call.op = "register" /\ call.res = "AlreadyRegistered"
    /\ call.account \in DOMAIN accounts
    /\ SumFun(accounts[call.account]) > 0

\* std::cmp::min
Min(a, b) == IF a < b THEN a ELSE b

\* The amounts in flight of the redemptions of (account_id, contract_id).
InFlight(bs, account_id, contract_id) ==
    SumSeq([k \in DOMAIN bs |->
                IF bs[k].owner = account_id /\ bs[k].contract = contract_id
                THEN bs[k].amount ELSE 0])

\* C2 - Redemption refund rule: when the remote ft_on_burn call succeeds with
\* a reply that parses as an unused amount u, ft_resolve_burn credits back
\* exactly min(amount, u) to (caller, source): the balance of the entry and
\* total_supply both rise by min(amount, u), so that over the redemption they
\* fall by amount - min(amount, u).
C2_RefundRule ==
    [][(call'.op = "ft_resolve_burn" /\ call'.reply.kind = "num")
       => LET b == burns[call'.k]
              refund == Min(b.amount, call'.reply.val)
          IN /\ ft_balance_by_contract(accounts', b.owner, b.contract)
                    = ft_balance_by_contract(accounts, b.owner, b.contract) + refund
             /\ total_supply' = total_supply + refund]_vars

\* C3 - Redemption failure favors the depositor: when the remote call fails,
\* or succeeds with a reply that is no amount, and nothing else has changed
\* the entry since the debit, ft_resolve_burn brings the balance of
\* (caller, source) back to its value before ft_burn_call and gives
\* total_supply the whole amount back.
C3_FullRefund ==
    [][(/\ call'.op = "ft_resolve_burn"
        /\ call'.reply.kind \in {"failed", "garbage"}
        /\ ft_balance_by_contract(accounts, burns[call'.k].owner, burns[call'.k].contract)
               = burns[call'.k].before - burns[call'.k].amount)
       => LET b == burns[call'.k]
          IN /\ ft_balance_by_contract(accounts', b.owner, b.contract) = b.before
             /\ total_supply' = total_supply + b.amount]_vars

\* C4 - No double-spend window: a ft_burn_call that goes through debits
\* (caller, source) by the amount in the step that puts the redemption in
\* flight, and one that fails changes nothing; a ft_burn_call for more than
\* the current balance is rejected; and the balance plus the amounts in
\* flight on an entry never grows except by the credits of a
\* resolve_collect.
C4_NoDoubleSpend ==
    [][/\ call'.op = "ft_burn_call"
          => LET a == call'.account
                 c == call'.source
                 balance == ft_balance_by_contract(accounts, a, c)
             IN /\ call'.amount > balance => call'.res # "ok"
                /\ call'.res = "ok"
                       => /\ ft_balance_by_contract(accounts', a, c)
                                 = balance - call'.amount
                          /\ total_supply' = total_supply - call'.amount
                          /\ Len(burns') = Len(burns) + 1
                          /\ burns'[Len(burns')].amount = call'.amount
                /\ call'.res # "ok" => LedgerUnchanged /\ burns' = burns
       /\ call'.op # "resolve_collect"
          => \A a \in Callers, c \in BurnSources :
                 ft_balance_by_contract(accounts', a, c) + InFlight(burns', a, c)
                     <= ft_balance_by_contract(accounts, a, c) + InFlight(burns, a, c)]_vars

\* Two redemptions of the same entry are in flight, and a third call, for an
\* amount the balance held before them, has just been rejected.
C4_Witness ==
    /\ Len(burns) = 2
    /\ burns[1].owner = burns[2].owner /\ burns[1].contract = burns[2].contract
    /\ call.op = "ft_burn_call" /\ call.res = "InsufficientBalance"
    /\ call.account = burns[1].owner /\ call.source = burns[1].contract
    /\ call.amount <= burns[1].before
    /\ call.amount > ft_balance_by_contract(accounts, call.account, call.source)

\* What the replies of a batch amount to for source s, position by position.
CreditOf(bt, s) ==
    SumSeq([i \in DOMAIN bt.collects |->
                IF bt.collects[i] = s THEN collect_amount(bt.results[i]) ELSE 0])

\* What the replies of a batch amount to in all.
CreditOfAll(bt) ==
    SumSeq([i \in DOMAIN bt.collects |-> collect_amount(bt.results[i])])

\* The caller has a slot for every source of the batch, and the supply has
\* room for all its replies: no deposit of the batch can fail.
CanSettle(bt) ==
    /\ \A i \in DOMAIN bt.collects : HasEntry(accounts, bt.account, bt.collects[i])
    /\ total_supply + CreditOfAll(bt) <= MaxBalance

\* C5 - Fan-out alignment: ft_collect issues its remote calls to the trusted
\* candidates only, in the order of the request, and resolve_collect credits
\* the i-th result to the i-th source of that list: each source of the batch
\* gets the amount of its own reply, and no other source gets anything,
\* whatever the order in which the remote calls ended.
C5_FanOutAlignment ==
    [][/\ (call'.op = "ft_collect" /\ call'.res = "ok")
          => /\ Len(batches') = Len(batches) + 1
             /\ batches'[Len(batches')].collects
                    = filter_collects(white_list, call'.collects)
       /\ (call'.op = "resolve_collect" /\ CanSettle(batches[call'.k]))
          => \A s \in Sources :
                 ft_balance_by_contract(accounts', call'.account, s)
                     = ft_balance_by_contract(accounts, call'.account, s)
                           + CreditOf(batches[call'.k], s)]_vars

\* C6 - Best-effort batch settlement: resolve_collect surfaces no error for
\* a source whose call failed, goes on with the others, and credits in all
\* the sum of the amounts of the sources whose call succeeded, each once.
C6_BatchSettlement ==
    [][(call'.op = "resolve_collect" /\ CanSettle(batches[call'.k]))
       => /\ call'.res = "ok"
          /\ total_supply' = total_supply + CreditOfAll(batches[call'.k])]_vars

\* C7 - Fail-closed budget check: a ft_collect that passes the registration
\* and deposit checks and whose required budget is not strictly below the
\* prepaid gas minus the gas reserved for the call itself is rejected, with
\* no remote call issued, no continuation scheduled and no state change.
C7_FailClosedBudget ==
    [][(/\ call'.op = "ft_collect"
        /\ call'.res \notin {"InsufficientDeposit", "BadSourceId"}
        /\ ~(required_gas(Len(filter_collects(white_list, call'.collects)))
                 < call'.gas - THIS_FUNCTION_CALL_GAS))
       => /\ call'.res # "ok"
          /\ batches' = batches
          /\ LedgerUnchanged]_vars

\* The amount the weighting table makes of a reply: the sum over the metrics
\* of coefficient times value for a metric mapping, the scalar otherwise.
weighted_amount(reply) ==
    IF reply.kind = "map"
    THEN SumFun([m \in DOMAIN reply.val |-> coe_map[m] * reply.val[m]])
    ELSE collect_amount(reply)

\* Every source of the batch is trusted now, the caller has a slot for each,
\* and the supply has room for the weighted amounts of all the replies.
CanSettleWeighted(bt) ==
    /\ \A i \in DOMAIN bt.collects :
           /\ is_trusted(white_list, bt.collects[i])
           /\ HasEntry(accounts, bt.account, bt.collects[i])
    /\ total_supply + SumSeq([i \in DOMAIN bt.collects |-> weighted_amount(bt.results[i])])
           <= MaxBalance

\* C11 - Weighted aggregation: when resolve_collect meets a successful reply
\* that is a metric mapping, the amount credited to (caller, source) is the
\* sum over the metrics of coefficient times value (with coefficients x: 1,
\* y: 2 the reply {x: 1, y: 1} credits 1*1 + 1*2 = 3).
C11_WeightedAggregation ==
    [][(call'.op = "resolve_collect" /\ CanSettleWeighted(batches[call'.k]))
       => \A i \in DOMAIN batches[call'.k].collects :
              batches[call'.k].results[i].kind = "map"
              => ft_balance_by_contract(accounts', call'.account,
                                        batches[call'.k].collects[i])
                     = ft_balance_by_contract(accounts, call'.account,
                                              batches[call'.k].collects[i])
                           + weighted_amount(batches[call'.k].results[i])]_vars

\* The authorization test as a total predicate: an id with fewer than two
\* labels has no root and is trusted only through the allow-list.
Authorized(wl, contract_id) ==
    \/ ~root_panics(contract_id)
          /\ get_root_id(contract_id) = get_root_id(CurrentAccountId)
    \/ contract_id \in wl

\* The candidates that pass that test, in the request's order.
AuthorizedOf(wl, collects) == SelectSeq(collects, LAMBDA c : Authorized(wl, c))

\* The attached deposit and the prepaid gas of the ft_collect just made
\* cover the registration, the missing slots and the fan-out to list.
Sufficient(list) ==
    LET slots == IF call'.account \in DOMAIN accounts
                 THEN DOMAIN accounts[call'.account] ELSE {}
        missing == Cardinality({i \in DOMAIN list : list[i] \notin slots})
    IN /\ call'.account \notin DOMAIN accounts => StorageCost < call'.deposit
       /\ StorageCost * missing <= call'.deposit + call'.credit
       /\ call'.gas >= THIS_FUNCTION_CALL_GAS
       /\ required_gas(Len(list)) < call'.gas - THIS_FUNCTION_CALL_GAS

\* C12 - Authorization filter never aborts a collection: whatever the form
\* of the candidates' ids (ids with fewer than two labels included), the
\* untrusted ones are dropped without an error, and a ft_collect with at
\* least one trusted candidate and enough deposit and gas succeeds and
\* issues its remote calls to exactly the trusted candidates.
C12_FilterNeverAborts ==
    [][LET list == AuthorizedOf(white_list, call'.collects)
       IN (call'.op = "ft_collect" /\ Len(list) > 0 /\ Sufficient(list))
          => /\ call'.res = "ok"
             /\ batches' = Append(batches,
                                  [account |-> call'.account, collects |-> list,
                                   results |-> [i \in 1..Len(list) |-> Pending]])]_vars

\* C13 - Nothing to collect: a ft_collect whose filtered list is empty (no
\* candidates, or none of them trusted) fails and has no effect: no remote
\* call, no continuation, and a caller registered earlier in the same call
\* is not left registered; when the call passes the deposit and gas checks
\* the failure is NothingToCollect.
C13_NothingToCollect ==
    [][(call'.op = "ft_collect" /\ AuthorizedOf(white_list, call'.collects) = <<>>)
       => /\ call'.res # "ok"
          /\ batches' = batches
          /\ LedgerUnchanged
          /\ call'.account \notin DOMAIN accounts
                 => call'.account \notin DOMAIN accounts'
          /\ (/\ Sufficient(<<>>)
              /\ \A i \in DOMAIN call'.collects : ~root_panics(call'.collects[i]))
                 => call'.res = "NothingToCollect"]_vars

\* An unregistered caller's ft_collect of untrusted candidates only has
\* failed with NothingToCollect, and the caller is not registered.
C13_Witness ==
    /\ call.op = "ft_collect"
    /\ call.res = "NothingToCollect"
    /\ call.collects # <<>>
    /\ call.deposit > StorageCost
    /\ call.account \notin DOMAIN accounts
    /\ batches = <<>>

\* C14 - Nothing unused: when the remote call of a redemption succeeds with
\* unused amount 0 or with no reply body, the refund is 0: ft_resolve_burn
\* changes nothing in the ledger and returns the whole amount as used, so
\* the net withdrawal is the full debited amount.
C14_NoRefund ==
    [][(/\ call'.op = "ft_resolve_burn"
        /\ call'.reply \in {Num(0), EmptyBody})
       => /\ call'.res = "ok"
          /\ LedgerUnchanged
          /\ call'.ret = call'.amount]_vars

\* C16 - Redemption preconditions: ft_burn_call goes through only if the
\* attached deposit is exactly one unit and the prepaid gas exceeds the
\* fixed cost of the remote call and its reconciliation
\* (GAS_FOR_FT_TRANSFER_CALL); a call that fails either test is rejected,
\* debits nothing and issues no remote call.
C16_RedemptionPreconditions ==
    [][call'.op = "ft_burn_call"
       => /\ call'.res = "ok"
                 => call'.deposit = 1 /\ call'.gas > GAS_FOR_FT_TRANSFER_CALL
          /\ (call'.deposit # 1 \/ ~(call'.gas > GAS_FOR_FT_TRANSFER_CALL))
                 => /\ call'.res \in {"RequiresOneYocto", "MoreGasRequired"}
                    /\ LedgerUnchanged
                    /\ burns' = burns]_vars

\* A ft_burn_call for an amount the caller holds, with one unit attached
\* and exactly GAS_FOR_FT_TRANSFER_CALL prepaid, has been rejected.
C16_Witness ==
    /\ call.op = "ft_burn_call"
    /\ call.deposit = 1
    /\ call.gas = GAS_FOR_FT_TRANSFER_CALL
    /\ call.res = "MoreGasRequired"
    /\ call.amount <= ft_balance_by_contract(accounts, call.account, call.source)
    /\ burns = <<>>

\* C15 - Lazy slot creation: a deposit of amount for a source on a registered
\* account that has no slot for that source yet succeeds and creates the
\* slot with balance amount, total_supply growing by amount; no registration
\* of the source for the account has to come first.
C15_LazySlotCreation ==
    [][(/\ call'.op = "deposit"
        /\ call'.source # None
        /\ call'.account \in DOMAIN accounts
        /\ ~HasEntry(accounts, call'.account, call'.source)
        /\ total_supply + call'.amount <= MaxBalance)
       => /\ call'.res = "ok"
          /\ HasEntry(accounts', call'.account, call'.source)
          /\ ft_balance_by_contract(accounts', call'.account, call'.source)
                 = call'.amount
          /\ total_supply' = total_supply + call'.amount]_vars

\* C17 - Reads are total: ft_balance_of and ft_balance_by_contract return 0
\* for an account that is not registered and for a registered account that
\* has no slot for the source, and the stored balance otherwise; they never
\* fail and change no state.
C17_ReadsAreTotal ==
    [][call'.op \in {"ft_balance_of", "ft_balance_by_contract"}
       => /\ call'.res = "ok"
          /\ call'.ret = IF HasEntry(accounts, call'.account, call'.source)
                         THEN accounts[call'.account][call'.source]
                         ELSE 0
          /\ UNCHANGED <<accounts, total_supply, white_list, owner_id, burns,
                         batches>>]_vars

\* ft_balance_by_contract has returned 0 for a source that a registered
\* account, holding a balance elsewhere, has no slot for.
C17_Witness ==
    /\ call.op = "ft_balance_by_contract"
    /\ call.account \in DOMAIN accounts
    /\ call.source \notin DOMAIN accounts[call.account]
    /\ SumFun(accounts[call.account]) > 0
    /\ call.ret = 0

\* C18 - Debit-before-call ordering: the step of ft_burn_call that issues
\* the remote call is the step that commits the withdrawal from (caller,
\* source), so the remote call is never in flight over an undebited ledger;
\* a call that runs next, while the redemption is in flight, reads the
\* balance after the debit, never the one before; and a ft_burn_call whose
\* debit fails issues no remote call.
C18_DebitBeforeCall ==
    [][/\ Len(burns') > Len(burns)
          => LET b == burns'[Len(burns')]
             IN /\ call'.op = "ft_burn_call" /\ call'.res = "ok"
                /\ ft_balance_by_contract(accounts', b.owner, b.contract)
                       = ft_balance_by_contract(accounts, b.owner, b.contract) - b.amount
                /\ total_supply' = total_supply - b.amount
       /\ (call'.op = "ft_burn_call" /\ LedgerUnchanged /\ call'.amount > 0)
          => burns' = burns
       /\ (/\ call.op = "ft_burn_call" /\ call.res = "ok"
           /\ call'.op = "ft_balance_by_contract"
           /\ call'.account = call.account /\ call'.source = call.source)
          => call'.ret = burns[Len(burns)].before - call.amount]_vars

\* The balance of an entry has been read while a redemption of it was in
\* flight, right after the ft_burn_call, and the read returned the balance
\* after the debit.
C18_Witness ==
    /\ call.op = "ft_balance_by_contract"
    /\ Len(burns) = 1
    /\ call.account = burns[1].owner /\ call.source = burns[1].contract
    /\ call.ret = burns[1].before - burns[1].amount
    /\ call.ret < burns[1].before
    /\ ft_balance_by_contract(accounts, call.account, call.source) = call.ret

\* The steps of a redemption: it comes into flight (Requested, Debited,
\* AwaitingConfirmation) only by a ft_burn_call that went through and
\* debited its amount, and it leaves only by its ft_resolve_burn, which
\* ends well, credits back a refund between 0 and the amount (Finalized
\* when 0, Refunded when the amount, PartiallyRefunded in between) and
\* returns the amount less the refund.
RedemptionStep ==
    /\ burns' # burns
       => \/ /\ call'.op = "ft_burn_call" /\ call'.res = "ok"
             /\ Len(burns') = Len(burns) + 1
             /\ SubSeq(burns', 1, Len(burns)) = burns
             /\ total_supply' = total_supply - burns'[Len(burns')].amount
          \/ /\ call'.op = "ft_resolve_burn"
             /\ call'.k \in DOMAIN burns
             /\ burns' = RemoveAt(burns, call'.k)
    /\ call'.op = "ft_resolve_burn"
       => LET refund == ft_balance_by_contract(accounts', call'.account, call'.source)
                            - ft_balance_by_contract(accounts, call'.account, call'.source)
          IN /\ call'.res = "ok"
             /\ burns' # burns
             /\ 0 <= refund /\ refund <= call'.amount
             /\ total_supply' = total_supply + refund
             /\ call'.ret = call'.amount - refund

\* C19 - Redemption state machine: every redemption whose debit went through
\* is reconciled exactly once, by a ft_resolve_burn that ends in one of
\* Finalized (refund 0), Refunded (refund = amount) and PartiallyRefunded
\* (in between) and returns amount - refund; the states come in the order
\* Requested, Debited, AwaitingConfirmation, terminal; and under fair
\* delivery of the remote outcome every redemption in flight is reconciled.
C19_RedemptionStateMachine ==
    /\ [][RedemptionStep]_vars
    /\ (burns # <<>>) ~> (burns = <<>> /\ call.op = "ft_resolve_burn")

\* C20 - No omission under interleaving: when resolve_collect runs, every
\* source of the batch (each passed ft_collect's filter) whose remote call
\* succeeded with a parseable amount above 0 is credited that amount,
\* whatever calls ran between ft_collect and resolve_collect, a
\* set_white_list that removes the source included.
C20_NoOmission ==
    [][(call'.op = "resolve_collect" /\ CanSettle(batches[call'.k]))
       => \A i \in DOMAIN batches[call'.k].collects :
              LET s == batches[call'.k].collects[i]
                  reply == batches[call'.k].results[i]
              IN (reply.kind = "num" /\ reply.val > 0)
                 => ft_balance_by_contract(accounts', call'.account, s)
                        >= ft_balance_by_contract(accounts, call'.account, s)
                               + reply.val]_vars

\* C21 - The refund cannot be lost: whatever ran between the debit of a
\* ft_burn_call and its reconciliation, credits of resolve_collect up to the
\* limits included, the refund deposit of ft_resolve_burn goes through: the
\* call does not fail, and the caller gets back the refund the remote
\* outcome calls for (min(amount, unused), or the whole amount).
C21_RefundNotLost ==
    [][call'.op = "ft_resolve_burn"
       => /\ call'.res \notin {"BalanceOverflow", "SupplyOverflow", "NotRegistered",
                                "ContractNotRegistered"}
          /\ ft_balance_by_contract(accounts', call'.account, call'.source)
                 = ft_balance_by_contract(accounts, call'.account, call'.source)
                       + refund_amount(call'.amount, call'.reply)]_vars

\* C22 - A zero amount is no deposit: a source of a batch whose computed
\* amount is zero (a reply of 0, or a reply that does not parse) is passed
\* over by resolve_collect: no deposit is called for it, so no entry is
\* created or touched and no error can arise from it; a batch all of whose
\* successful replies amount to zero ends well with the ledger unchanged.
C22_ZeroAmountNoDeposit ==
    [][(/\ call'.op = "resolve_collect"
        /\ \A i \in DOMAIN batches[call'.k].results :
               collect_amount(batches[call'.k].results[i]) = 0)
       => /\ call'.res = "ok"
          /\ LedgerUnchanged]_vars

\* The positions of a batch whose reply resolve_collect deposits now: the
\* call succeeded and the source is trusted.
Deposited(bt) ==
    {i \in DOMAIN bt.collects :
        bt.results[i].kind # "failed" /\ is_trusted(white_list, bt.collects[i])}

\* Some deposit of the batch has to fail: a slot is missing, or the amounts
\* deposited do not fit in the supply.
MustFail(bt) ==
    \/ \E i \in Deposited(bt) : ~HasEntry(accounts, bt.account, bt.collects[i])
    \/ total_supply
           + SumSeq([i \in DOMAIN bt.collects |->
                         IF i \in Deposited(bt) THEN collect_amount(bt.results[i]) ELSE 0])
           > MaxBalance

\* C23 - Ledger errors are fatal to the batch: when a deposit of a
\* resolve_collect fails (balance or supply overflow, account or slot not
\* registered) the call fails with that error and none of its credits
\* stay: every balance and total_supply are as before the call, those of
\* the sources it had already credited included.
C23_LedgerErrorsFatal ==
    [][call'.op = "resolve_collect"
       => /\ MustFail(batches[call'.k])
                 => call'.res \in {"BalanceOverflow", "SupplyOverflow",
                                   "NotRegistered", "ContractNotRegistered"}
          /\ call'.res # "ok" => LedgerUnchanged]_vars

\* A resolve_collect has failed on the supply's limit although no single
\* reply could have reached it: it had credited an earlier source of the
\* batch, and that credit is gone.
C23_Witness ==
    /\ call.op = "resolve_collect"
    /\ call.res = "SupplyOverflow"
    /\ total_supply + 2 <= MaxBalance

\* C24 - ft_collect changes no balance: the balance of every entry and
\* total_supply are the same after a ft_collect as before it, whether it
\* fails or issues its calls, and they stay so while the remote calls of a
\* batch end: in the collection protocol only resolve_collect changes them.
C24_CollectChangesNoBalance ==
    [][call'.op \in {"ft_collect", "collect_drip"}
       => /\ total_supply' = total_supply
          /\ \A a \in Callers \cup Users, c \in Slots :
                 ft_balance_by_contract(accounts', a, c)
                     = ft_balance_by_contract(accounts, a, c)]_vars

\* A ft_collect of a caller who holds a balance has issued its calls, with
\* an earlier batch of the caller still in flight.
C24_Witness ==
    /\ call.op = "ft_collect" /\ call.res = "ok"
    /\ Len(batches) = 2
    /\ total_supply > 0
    /\ ft_balance_by_contract(accounts, call.account, SrcA) > 0

\* C25 - Auto-registration: a ft_collect of a caller who is not registered
\* registers the caller whenever the attached deposit covers the storage
\* cost of one registration, the exact cost included (so a deposit that
\* covers the registration and a slot for every trusted candidate is not
\* turned down as insufficient), and fails with InsufficientDeposit,
\* leaving the caller unregistered, whenever the deposit is below that cost.
C25_AutoRegistration ==
    [][(call'.op = "ft_collect" /\ call'.account \notin DOMAIN accounts)
       => LET list == AuthorizedOf(white_list, call'.collects)
          IN /\ call'.deposit < StorageCost
                    => /\ call'.res = "InsufficientDeposit"
                       /\ call'.account \notin DOMAIN accounts'
             /\ call'.deposit >= StorageCost * (1 + Len(list))
                    => call'.res # "InsufficientDeposit"
             /\ call'.res = "ok" => call'.account \in DOMAIN accounts']_vars

\* C26 - Storage payment sufficiency: a ft_collect gets past its deposit
\* checks only if the caller's unused storage credit plus the attached
\* deposit covers all the storage the call needs: the cost of one
\* registration when the call registers the caller, and one unit of that
\* cost per filtered source the caller has no slot for; a call that fails
\* the deposit checks issues no remote call.
C26_StoragePaymentSufficiency ==
    [][call'.op = "ft_collect"
       => LET list == filter_collects(white_list, call'.collects)
              registered == call'.account \in DOMAIN accounts
              slots == IF registered THEN DOMAIN accounts[call'.account] ELSE {}
              missing == Cardinality({i \in DOMAIN list : list[i] \notin slots})
              needed == StorageCost * ((IF registered THEN 0 ELSE 1) + missing)
          IN /\ call'.res \in {"ok", "NothingToCollect", "InsufficientBudget",
                                "GasUnderflow"}
                    => needed <= call'.credit + call'.deposit
             /\ call'.res = "InsufficientDeposit" => batches' = batches]_vars

\* C27 - The balance without a source is the account's total: after any
\* credits (resolve_collect) and debits and refunds (ft_burn_call,
\* ft_resolve_burn), ft_balance_of(account) is the sum over the sources of
\* ft_balance_by_contract(account, source).
C27_BalanceOfIsTotal ==
    \A a \in Callers :
        ft_balance_of(accounts, a)
            = SumFun([c \in Sources |-> ft_balance_by_contract(accounts, a, c)])

\* C28 - Authorization decision: at each of its sites (the filter of
\* ft_collect, internal_set_drip, check_contract_id) and whatever owner_id
\* the contract was initialized with, a source is trusted exactly when its
\* two-label root is the two-label root of the contract's own account id
\* or the source is in the allow-list.
C28_AuthorizationDecision ==
    [][/\ (call'.op = "check_contract_id" /\ ~root_panics(call'.source))
          => (call'.res = "trusted" <=> Authorized(white_list, call'.source))
       /\ (call'.op = "ft_collect" /\ call'.res = "ok")
          => batches'[Len(batches')].collects
                 = AuthorizedOf(white_list, call'.collects)
       /\ (call'.op = "resolve_collect" /\ CanSettle(batches[call'.k]))
          => \A i \in DOMAIN batches[call'.k].collects :
                 LET s == batches[call'.k].collects[i]
                 IN ft_balance_by_contract(accounts', call'.account, s)
                        - ft_balance_by_contract(accounts, call'.account, s)
                    = IF Authorized(white_list, s)
                      THEN collect_amount(batches[call'.k].results[i])
                      ELSE 0]_vars

\* C29 - The allow-list is owner-gated: a set_white_list of a caller other
\* than owner_id fails (Unauthorized) and leaves the allow-list as it was;
\* the owner's call adds the source or removes it; and no other call
\* changes the allow-list, so that at any time it holds the sources the
\* owner added and has not removed since, and nobody else can make a
\* source creditable.
C29_OwnerGatedAllowList ==
    [][/\ call'.op = "set_white_list"
          => IF call'.account = owner_id
             THEN /\ call'.res = "ok"
                  /\ white_list' = IF call'.del
                                   THEN white_list \ {call'.source}
                                   ELSE white_list \cup {call'.source}
             ELSE /\ call'.res = "Unauthorized"
                  /\ white_list' = white_list
       /\ call'.op # "set_white_list" => white_list' = white_list
       /\ owner_id' = owner_id]_vars

\* A caller who is not the owner has tried to add a source to the
\* allow-list; the call failed and the source is not trusted.
C29_Witness ==
    /\ call.op = "set_white_list"
    /\ call.account # owner_id
    /\ ~call.del
    /\ call.res = "Unauthorized"
    /\ call.source \notin white_list
    /\ ~is_trusted(white_list, call.source)

====
